---- MODULE Spec2Model ----
(***************************************************************************)
(* Event locations of GDB (gdb/location.c): the explicit-location lexers   *)
(* and parser, the top-level dispatcher string_to_event_location, and the  *)
(* rendering of locations back to text.                                    *)
(*                                                                         *)
(* A C string is a sequence of one-character strings; a `const char *'     *)
(* into it is a 1-based index, Len(s)+1 being the terminating NUL.  A      *)
(* pointer that may be NULL is an index that may be 0; a malloc'd string   *)
(* that may be NULL is a sequence of length 0 (NULL) or 1 (the string).    *)
(***************************************************************************)
EXTENDS Integers, Sequences, FiniteSets, TLC

\* ------------------------------------------------------------------------
\* Bounds of the model.

\* Number of fragments an input text is made of.
MaxFragments == 2

\* Number of strings that are allocated in a run over location objects.
MaxCells == 7

\* Number of characters after the opening quote of a quoted text.
MaxQuoted == 5

\* ------------------------------------------------------------------------
\* Characters and <ctype.h>.

NUL == "NUL"

At(s, i) == IF i >= 1 /\ i <= Len(s) THEN s[i] ELSE NUL

Alpha == {"a", "b", "c", "d", "e", "f", "g", "h", "i", "j", "k", "l", "m",
          "n", "o", "p", "q", "r", "s", "t", "u", "v", "w", "x", "y", "z"}

DigitChars == <<"0", "1", "2", "3", "4", "5", "6", "7", "8", "9">>

Digits == {DigitChars[i] : i \in 1..10}

isalpha(c) == c \in Alpha

isdigit(c) == c \in Digits

isalnum(c) == isalpha(c) \/ isdigit(c)

isspace(c) == c \in {" ", "\t", "\n"}

DigitVal(c) == (CHOOSE i \in 1..10 : DigitChars[i] = c) - 1

\* A malloc'd string or NULL.
NULL == << >>

Some(str) == <<str>>

\* savestring (ptr, size): a copy of SIZE characters starting at PTR.
savestring(s, from, size) == Some(SubSeq(s, from, from + size - 1))

startswith(s, i, pat) ==
  /\ i + Len(pat) - 1 <= Len(s)
  /\ SubSeq(s, i, i + Len(pat) - 1) = pat

\* strcmp in the place of strncmp: no abbreviations.
strncmp_prefix_whole(opt, name) == opt = name

\* strncmp (opt, name, strlen (opt)) == 0
strncmp_prefix(opt, name) ==
  /\ Len(opt) <= Len(name)
  /\ opt = SubSeq(name, 1, Len(opt))

\* ------------------------------------------------------------------------
\* Collaborators outside location.c (linespec.c, cli-utils.c, probe.c,
\* utils.c, cp-support.h).

CP_OPERATOR_STR == <<"o", "p", "e", "r", "a", "t", "o", "r">>

CP_OPERATOR_LEN == Len(CP_OPERATOR_STR)

QuoteChars == {"\"", "'"}

RECURSIVE skip_spaces(_, _)
skip_spaces(s, i) == IF isspace(At(s, i)) THEN skip_spaces(s, i + 1) ELSE i

RECURSIVE remove_trailing_whitespace(_, _, _)
remove_trailing_whitespace(s, start, e) ==
  IF e > start /\ isspace(At(s, e - 1))
  THEN remove_trailing_whitespace(s, start, e - 1)
  ELSE e

\* The linespec keyword table.
linespec_keywords == { <<"i", "f">> }

\* A keyword starts at index P and is followed by whitespace: TRUE when
\* linespec_lexer_lex_keyword returns non-NULL.
linespec_lexer_lex_keyword(s, p) ==
  \E kw \in linespec_keywords :
     startswith(s, p, kw) /\ isspace(At(s, p + Len(kw)))

\* First top-level occurrence of C in S at or after FROM, 0 when none.
RECURSIVE find_toplevel_scan(_, _, _, _)
find_toplevel_scan(s, scan, c, quoted) ==
  IF At(s, scan) = NUL THEN 0
  ELSE IF quoted # NUL
       THEN IF At(s, scan) = quoted
            THEN find_toplevel_scan(s, scan + 1, c, NUL)
            ELSE IF At(s, scan) = "\\" /\ At(s, scan + 1) # NUL
                 THEN find_toplevel_scan(s, scan + 2, c, quoted)
                 ELSE find_toplevel_scan(s, scan + 1, c, quoted)
       ELSE IF At(s, scan) = c THEN scan
            ELSE IF At(s, scan) \in QuoteChars
                 THEN find_toplevel_scan(s, scan + 1, c, At(s, scan))
                 ELSE find_toplevel_scan(s, scan + 1, c, NUL)

find_toplevel_char(s, from, c) == find_toplevel_scan(s, from, c, NUL)

\* atoi: the value of the leading run of digits.
RECURSIVE atoi_acc(_, _, _)
atoi_acc(str, i, acc) ==
  IF isdigit(At(str, i))
  THEN atoi_acc(str, i + 1, 10 * acc + DigitVal(str[i]))
  ELSE acc

atoi(str, i) == atoi_acc(str, i, 0)

\* A signed-offset token as {sign, magnitude}.
linespec_parse_line_offset(str) ==
  IF At(str, 1) = "+" THEN [sign |-> "PLUS", offset |-> atoi(str, 2)]
  ELSE IF At(str, 1) = "-" THEN [sign |-> "MINUS", offset |-> atoi(str, 2)]
  ELSE [sign |-> "NONE", offset |-> atoi(str, 1)]

\* printf ("%d") of a non-negative int.
RECURSIVE itoa(_)
itoa(n) == IF n < 10 THEN <<DigitChars[n + 1]>>
           ELSE itoa(n \div 10) \o <<DigitChars[(n % 10) + 1]>>

\* The probe recogniser: the text starts with the reserved "-p" option,
\* followed by whitespace or the end of the text.
probe_linespec_to_static_ops(s, i) ==
  /\ startswith(s, i, <<"-", "p">>)
  /\ (At(s, i + 2) = NUL \/ isspace(At(s, i + 2)))

\* The address-expression parser: S[star] is `*'.  The span consumed ends
\* at the next whitespace, comma or end of text; the value is the number
\* written after the `*'.
RECURSIVE expression_end(_, _)
expression_end(s, i) ==
  IF At(s, i) = NUL \/ At(s, i) = "," \/ isspace(At(s, i)) THEN i
  ELSE expression_end(s, i + 1)

linespec_expression_to_pc(s, star) ==
  [addr |-> atoi(s, star + 1), arg |-> expression_end(s, star + 1)]

\* The canonical text of an address.
RECURSIVE hex_digits(_)
hex_digits(n) ==
  LET HexChars == DigitChars \o <<"a", "b", "c", "d", "e", "f">>
  IN  IF n < 16 THEN <<HexChars[n + 1]>>
      ELSE hex_digits(n \div 16) \o <<HexChars[(n % 16) + 1]>>

core_addr_to_string(addr) == <<"0", "x">> \o hex_digits(addr)

\* The linespec tokenizer run to the end of the linespec: it stops at the
\* end of text, before a top-level comma, and before a keyword that follows
\* whitespace.  A quoted token that is never closed is an error, given as 0.
RECURSIVE linespec_lex_scan(_, _, _)
linespec_lex_scan(s, scan, quoted) ==
  IF At(s, scan) = NUL THEN (IF quoted # NUL THEN 0 ELSE scan)
  ELSE IF quoted # NUL
       THEN IF At(s, scan) = quoted
            THEN linespec_lex_scan(s, scan + 1, NUL)
            ELSE IF At(s, scan) = "\\" /\ At(s, scan + 1) # NUL
                 THEN linespec_lex_scan(s, scan + 2, quoted)
                 ELSE linespec_lex_scan(s, scan + 1, quoted)
       ELSE IF At(s, scan) = "," THEN scan
            ELSE IF isspace(At(s, scan))
                    /\ linespec_lexer_lex_keyword(s, skip_spaces(s, scan))
                 THEN skip_spaces(s, scan)
                 ELSE IF At(s, scan) \in QuoteChars
                      THEN linespec_lex_scan(s, scan + 1, At(s, scan))
                      ELSE linespec_lex_scan(s, scan + 1, NUL)

linespec_lex_to_end(s, from) ==
  IF linespec_lexer_lex_keyword(s, from) THEN from
  ELSE linespec_lex_scan(s, from, NUL)

\* ------------------------------------------------------------------------
\* The lexers of location.c.

\* The language of the session (language->la_language).
Languages == {"cplus"}

\* is_ada_operator: a double-quoted Ada operator name such as "<".
is_ada_operator(s, i) == At(s, i) = "\"" /\ At(s, i + 2) = "\""

\* A scan for the closing quote that also stops at a comma.
RECURSIVE find_end_quote_or_comma(_, _, _)
find_end_quote_or_comma(s, from, end_quote_char) ==
  IF At(s, from) = NUL THEN 0
  ELSE IF At(s, from) = end_quote_char \/ At(s, from) = "," THEN from
  ELSE find_end_quote_or_comma(s, from + 1, end_quote_char)

\* find_end_quote (s, end_quote_char): index of the closing quote, 0 when
\* there is none.
RECURSIVE find_end_quote_scan(_, _, _, _)
find_end_quote_scan(s, scan, end_quote_char, nested_quote_char) ==
  IF At(s, scan) = NUL THEN 0
  ELSE IF nested_quote_char # NUL
       THEN IF At(s, scan) = nested_quote_char
            THEN find_end_quote_scan(s, scan + 1, end_quote_char, NUL)
            ELSE IF At(s, scan) = "\\" /\ At(s, scan + 1) # NUL
                 THEN find_end_quote_scan(s, scan + 2, end_quote_char,
                                          nested_quote_char)
                 ELSE find_end_quote_scan(s, scan + 1, end_quote_char,
                                          nested_quote_char)
       ELSE IF At(s, scan) = end_quote_char THEN scan
            ELSE IF At(s, scan) = "\"" \/ At(s, scan) = "'"
                 THEN find_end_quote_scan(s, scan + 1, end_quote_char,
                                          At(s, scan))
                 ELSE find_end_quote_scan(s, scan + 1, end_quote_char, NUL)

find_end_quote(s, from, end_quote_char) ==
  find_end_quote_scan(s, from, end_quote_char, NUL)

\* What a lexer hands back: the token (or NULL), the advanced cursor, and
\* the error it raised, if any.  "overrun" is a cursor moved past the
\* terminating NUL.
LexResult(tok, inp, error) == [tok |-> tok, inp |-> inp, error |-> error]

\* while (*inp[0] != '\0' && *inp[0] != ',' && !isspace (*inp[0])) ++(*inp);
RECURSIVE lex_signed_end(_, _)
lex_signed_end(s, inp) ==
  IF At(s, inp) # NUL /\ At(s, inp) # "," /\ ~isspace(At(s, inp))
  THEN lex_signed_end(s, inp + 1)
  ELSE inp

\* while (isdigit (*inp[0])) ++(*inp);
RECURSIVE lex_digits_end(_, _)
lex_digits_end(s, inp) ==
  IF isdigit(At(s, inp)) THEN lex_digits_end(s, inp + 1) ELSE inp

\* The loop that stops at whitespace, NUL, keyword or ','.
RECURSIVE lex_bare_end(_, _, _)
lex_bare_end(s, inp, language) ==
  IF /\ inp <= Len(s)
     /\ At(s, inp) # ","
     /\ ~(isspace(At(s, inp)) \/ linespec_lexer_lex_keyword(s, inp + 1))
  THEN IF language = "cplus" /\ startswith(s, inp, CP_OPERATOR_STR)
       THEN lex_bare_end(s, inp + CP_OPERATOR_LEN + 1, language)
       ELSE lex_bare_end(s, inp + 1, language)
  ELSE inp

\* completion_info is TRUE when a completion info object is passed.
explicit_location_lex_one(s, start, language, completion_info) ==
  IF At(s, start) = NUL THEN LexResult(NULL, start, "none")
  ELSE IF At(s, start) \in QuoteChars
  THEN LET end == find_end_quote(s, start + 1, At(s, start))
       IN  IF end = 0
           THEN IF ~completion_info
                THEN LexResult(NULL, start, "unmatched_quote")
                ELSE LexResult(savestring(s, start + 1, Len(s) - start),
                               Len(s) + 1, "none")
           ELSE LexResult(savestring(s, start + 1, end - start - 1),
                          end + 1, "none")
  ELSE IF At(s, start) = "-" \/ At(s, start) = "+"
  THEN LET inp == lex_signed_end(s, start)
       IN  IF inp - start > 0
           THEN LexResult(savestring(s, start, inp - start), inp, "none")
           ELSE LexResult(NULL, inp, "none")
  ELSE LET digits == lex_digits_end(s, start)
       IN  IF At(s, digits) = NUL \/ isspace(At(s, digits))
              \/ At(s, digits) = ","
           THEN LexResult(savestring(s, start, digits - start), digits,
                          "none")
           ELSE LET inp == lex_bare_end(s, start, language)
                IN  IF inp > Len(s) + 1
                    THEN LexResult(NULL, inp, "overrun")
                    ELSE IF inp - start > 0
                    THEN LexResult(savestring(s, start, inp - start), inp,
                                   "none")
                    ELSE LexResult(NULL, inp, "none")

\* while (p > start && isspace (p[-1])) p--;
RECURSIVE back_over_spaces(_, _, _)
back_over_spaces(s, start, p) ==
  IF p > start /\ isspace(At(s, p - 1))
  THEN back_over_spaces(s, start, p - 1)
  ELSE p

is_cp_operator(s, start, comma) ==
  /\ comma # 0
  /\ comma - start >= CP_OPERATOR_LEN
  /\ LET p == back_over_spaces(s, start, comma)
     IN  /\ p - start >= CP_OPERATOR_LEN
         /\ SubSeq(s, p - CP_OPERATOR_LEN, p - 1) = CP_OPERATOR_STR
         /\ \/ p - CP_OPERATOR_LEN = start
            \/ ~(isalnum(At(s, p - CP_OPERATOR_LEN - 1))
                 \/ At(s, p - CP_OPERATOR_LEN - 1) = "_")

\* The resumed scan stepping over one character only, also after "--".
RECURSIVE skip_op_one_character(_, _, _)
skip_op_one_character(s, start, found) ==
  IF found # 0 /\ is_cp_operator(s, start, found)
  THEN skip_op_one_character(s, found + 1,
                             find_toplevel_char(s, found + 1, At(s, found)))
  ELSE found

RECURSIVE skip_op_false_positives(_, _, _)
skip_op_false_positives(s, start, found) ==
  IF found # 0 /\ is_cp_operator(s, start, found)
  THEN LET next == IF At(s, found) = "-" /\ At(s, found + 1) = "-"
                   THEN found + 2
                   ELSE found + 1
       IN  skip_op_false_positives(s, next,
                                   find_toplevel_char(s, next, At(s, found)))
  ELSE found

first_of(first, new_tok) ==
  IF first = 0 THEN new_tok
  ELSE IF new_tok # 0 /\ new_tok < first THEN new_tok
  ELSE first

\* The first top-level space that precedes a keyword, 0 when none.
RECURSIVE keyword_space(_, _)
keyword_space(s, from) ==
  LET ws == find_toplevel_char(s, from, " ")
  IN  IF ws # 0 /\ ~linespec_lexer_lex_keyword(s, ws + 1)
      THEN keyword_space(s, ws + 1)
      ELSE ws

\* while (end > start && end[-1] == ' ') end--;
RECURSIVE trim_end(_, _, _)
trim_end(s, start, end) ==
  IF end > start /\ At(s, end - 1) = " " THEN trim_end(s, start, end - 1)
  ELSE end

explicit_location_lex_one_function(s, start, language, completion_info) ==
  IF At(s, start) = NUL THEN LexResult(NULL, start, "none")
  ELSE IF /\ At(s, start) \in QuoteChars
          /\ ~(language = "ada" /\ At(s, start) = "\""
               /\ is_ada_operator(s, start))
  THEN LET end == find_toplevel_char(s, start + 1, At(s, start))
       IN  IF end = 0
           THEN IF ~completion_info
                THEN LexResult(NULL, start, "unmatched_quote")
                ELSE LexResult(savestring(s, start + 1, Len(s) - start),
                               Len(s) + 1, "none")
           ELSE LexResult(savestring(s, start + 1, end - start - 1),
                          end + 1, "none")
  ELSE LET comma == skip_op_false_positives(s, start,
                       find_toplevel_char(s, start, ","))
           hyphen == skip_op_false_positives(s, start,
                       IF At(s, start) = "-"
                       THEN find_toplevel_char(s, start + 1, "-")
                       ELSE find_toplevel_char(s, start, "-"))
           ws == keyword_space(s, start)
           end1 == first_of(hyphen, comma)
           end2 == IF ws # 0 THEN first_of(end1, ws + 1) ELSE end1
           end3 == IF end2 = 0 THEN Len(s) + 1 ELSE end2
           end == trim_end(s, start, end3)
       IN  IF end - start > 0
           THEN LexResult(savestring(s, start, end - start), end, "none")
           ELSE LexResult(NULL, end, "none")

\* ------------------------------------------------------------------------
\* Locations.

\* initialize_explicit_location
initialize_explicit_location ==
  [source_filename |-> NULL,
   function_name |-> NULL,
   label_name |-> NULL,
   line_offset |-> [sign |-> "UNKNOWN", offset |-> 0],
   func_name_match_type |-> "WILD"]

\* No location (a null event_location_up).
NoLocation ==
  [type |-> "NONE",
   as_string |-> << >>,
   linespec_location |-> [match_type |-> "WILD", spec_string |-> NULL],
   address |-> 0,
   explicit_loc |-> initialize_explicit_location]

\* event_location_probe (std::string &&probe)
new_probe_location(probe) ==
  [NoLocation EXCEPT !.type = "PROBE", !.as_string = probe]

\* An address location that does not keep the string it is given.
new_address_location_computed(addr, addr_string) ==
  [NoLocation EXCEPT !.type = "ADDRESS", !.address = addr]

\* event_location_address (addr, addr_string, addr_string_len);
\* addr_string is NULL or a string.
new_address_location(addr, addr_string) ==
  [NoLocation EXCEPT !.type = "ADDRESS", !.address = addr,
                     !.as_string = IF addr_string # NULL THEN addr_string[1]
                                   ELSE << >>]

\* event_location_linespec (const char **linespec, match_type): the
\* location, the advanced *linespec and the error raised by the tokenizer.
\* TEXT is NULL or the string.
new_linespec_location(text, from, match_type) ==
  IF text = NULL
  THEN [location |-> [NoLocation EXCEPT
                        !.type = "LINESPEC",
                        !.linespec_location.match_type = match_type],
        linespec |-> from,
        error |-> "none"]
  ELSE LET s == text[1]
           end == linespec_lex_to_end(s, from)
           p == remove_trailing_whitespace(s, from, end)
       IN  IF end = 0
           THEN [location |-> NoLocation, linespec |-> from,
                 error |-> "unmatched_quote"]
           ELSE [location |-> [NoLocation EXCEPT
                                 !.type = "LINESPEC",
                                 !.linespec_location.match_type = match_type,
                                 !.linespec_location.spec_string =
                                    IF p - from > 0
                                    THEN savestring(s, from, p - from)
                                    ELSE NULL],
                 linespec |-> end,
                 error |-> "none"]

\* event_location_explicit (const explicit_location *loc), copy_loc
new_explicit_location(loc) ==
  [NoLocation EXCEPT !.type = "EXPLICIT", !.explicit_loc = loc]

\* An empty_p that does not look at the line offset.
explicit_empty_p_no_line(explicit_loc) ==
  /\ explicit_loc.source_filename = NULL
  /\ explicit_loc.function_name = NULL
  /\ explicit_loc.label_name = NULL

\* event_location_explicit::empty_p
explicit_empty_p(explicit_loc) ==
  /\ explicit_loc.source_filename = NULL
  /\ explicit_loc.function_name = NULL
  /\ explicit_loc.label_name = NULL
  /\ explicit_loc.line_offset.sign = "UNKNOWN"

\* event_location_empty_p
event_location_empty_p(location) ==
  IF location.type = "EXPLICIT" THEN explicit_empty_p(location.explicit_loc)
  ELSE FALSE

\* explicit_to_string_internal
explicit_to_string_internal(as_linespec, explicit_loc) ==
  LET space == IF as_linespec THEN <<":">> ELSE <<" ">>
      Flag(name) == IF as_linespec THEN << >> ELSE name
      src == IF explicit_loc.source_filename # NULL
             THEN Flag(<<"-", "s", "o", "u", "r", "c", "e", " ">>)
                  \o explicit_loc.source_filename[1]
             ELSE << >>
      need1 == explicit_loc.source_filename # NULL
      fn == IF explicit_loc.function_name # NULL
            THEN (IF need1 THEN space ELSE << >>)
                 \o (IF explicit_loc.func_name_match_type = "FULL"
                     THEN <<"-", "q", "u", "a", "l", "i", "f", "i", "e", "d",
                            " ">>
                     ELSE << >>)
                 \o Flag(<<"-", "f", "u", "n", "c", "t", "i", "o", "n", " ">>)
                 \o explicit_loc.function_name[1]
            ELSE << >>
      need2 == need1 \/ explicit_loc.function_name # NULL
      lbl == IF explicit_loc.label_name # NULL
             THEN (IF need2 THEN space ELSE << >>)
                  \o Flag(<<"-", "l", "a", "b", "e", "l", " ">>)
                  \o explicit_loc.label_name[1]
             ELSE << >>
      need3 == need2 \/ explicit_loc.label_name # NULL
      line == IF explicit_loc.line_offset.sign # "UNKNOWN"
              THEN (IF need3 THEN space ELSE << >>)
                   \o Flag(<<"-", "l", "i", "n", "e", " ">>)
                   \o (IF explicit_loc.line_offset.sign = "NONE" THEN << >>
                       ELSE IF explicit_loc.line_offset.sign = "PLUS"
                            THEN <<"+">>
                            ELSE <<"-">>)
                   \o itoa(explicit_loc.line_offset.offset)
              ELSE << >>
  IN  src \o fn \o lbl \o line

explicit_location_to_string(explicit_loc) ==
  explicit_to_string_internal(FALSE, explicit_loc)

explicit_location_to_linespec(explicit_loc) ==
  explicit_to_string_internal(TRUE, explicit_loc)

\* compute_string of the four variants.
compute_string(location) ==
  CASE location.type = "PROBE" -> location.as_string
    [] location.type = "LINESPEC" ->
         IF location.linespec_location.spec_string # NULL
         THEN IF location.linespec_location.match_type = "FULL"
              THEN <<"-", "q", "u", "a", "l", "i", "f", "i", "e", "d", " ">>
                   \o location.linespec_location.spec_string[1]
              ELSE location.linespec_location.spec_string[1]
         ELSE << >>
    [] location.type = "ADDRESS" ->
         <<"*">> \o core_addr_to_string(location.address)
    [] location.type = "EXPLICIT" ->
         explicit_location_to_string(location.explicit_loc)

\* event_location::to_string: the value as_string has afterwards.
to_string_cache(location) ==
  IF location.as_string = << >> THEN compute_string(location)
  ELSE location.as_string

\* event_location::to_string: the string returned, NULL for nullptr.
to_string(location) ==
  IF to_string_cache(location) = << >> THEN NULL
  ELSE Some(to_string_cache(location))

\* ------------------------------------------------------------------------
\* string_to_explicit_location: one iteration of the option loop.

OPT_SOURCE == <<"-", "s", "o", "u", "r", "c", "e">>

OPT_FUNCTION == <<"-", "f", "u", "n", "c", "t", "i", "o", "n">>

OPT_QUALIFIED == <<"-", "q", "u", "a", "l", "i", "f", "i", "e", "d">>

OPT_LINE == <<"-", "l", "i", "n", "e">>

OPT_LABEL == <<"-", "l", "a", "b", "e", "l">>

\* The chain without its "invalid argument" branch.
option_branch_no_invalid(opt) ==
  IF strncmp_prefix(opt, OPT_SOURCE) THEN "source"
  ELSE IF strncmp_prefix(opt, OPT_FUNCTION) THEN "function"
  ELSE IF strncmp_prefix(opt, OPT_QUALIFIED) THEN "qualified"
  ELSE IF strncmp_prefix(opt, OPT_LINE) THEN "line"
  ELSE IF strncmp_prefix(opt, OPT_LABEL) THEN "label"
  ELSE "terminate"

\* The if/else-if chain on the option string.
option_branch(opt) ==
  IF strncmp_prefix(opt, OPT_SOURCE) THEN "source"
  ELSE IF strncmp_prefix(opt, OPT_FUNCTION) THEN "function"
  ELSE IF strncmp_prefix(opt, OPT_QUALIFIED) THEN "qualified"
  ELSE IF strncmp_prefix(opt, OPT_LINE) THEN "line"
  ELSE IF strncmp_prefix(opt, OPT_LABEL) THEN "label"
  ELSE IF At(opt, 1) = "-" /\ ~isdigit(At(opt, 2)) THEN "invalid"
  ELSE "terminate"

\* The entry test without the "-p" reservation.
is_explicit_start_unreserved(text) ==
  /\ text # NULL
  /\ At(text[1], 1) = "-"
  /\ isalpha(At(text[1], 2))

\* The entry test: TEXT is NULL or the string *argp.
is_explicit_start(text) ==
  /\ text # NULL
  /\ At(text[1], 1) = "-"
  /\ isalpha(At(text[1], 2))
  /\ ~(At(text[1], 1) = "-" /\ At(text[1], 2) = "p")

\* while ((*argp)[0] != '\0' && (*argp)[0] != ',') ... and the keyword break.
loop_continues(s, argp) ==
  /\ At(s, argp) # NUL
  /\ At(s, argp) # ","
  /\ ~linespec_lexer_lex_keyword(s, argp)

\* What strlen (opt.get ()) of a null OPT may do.
NullOptOutcomes == {"crash", "empty"}

IterResult(branch, argp, loc, outcome) ==
  [branch |-> branch, argp |-> argp, loc |-> loc, outcome |-> outcome]

\* The end of an iteration that took the argument lexed as V into FIELD.
iteration_with_argument(s, start, loc, completion_info, branch, field, v) ==
  IF v.error # "none" THEN IterResult(branch, start, loc, v.error)
  ELSE LET stored == [loc EXCEPT ![field] = v.tok]
           argp == skip_spaces(s, v.inp)
       IN  IF v.tok = NULL /\ ~completion_info
           THEN IterResult(branch, argp, stored, "missing_argument")
           ELSE IterResult(branch, argp, stored, "continue")

\* The -line branch.
iteration_line(s, start, loc, completion_info, v) ==
  IF v.error # "none" THEN IterResult("line", start, loc, v.error)
  ELSE LET argp == skip_spaces(s, v.inp)
       IN  IF v.tok # NULL
           THEN IterResult("line", argp,
                           [loc EXCEPT !.line_offset =
                                         linespec_parse_line_offset(v.tok[1])],
                           "continue")
           ELSE IF ~completion_info
                THEN IterResult("line", skip_spaces(s, argp), loc,
                                "missing_argument")
                ELSE IterResult("line", skip_spaces(s, argp), loc, "continue")

\* The body of the while loop, from `start = *argp' to its end.  UB is the
\* outcome taken when the option lexer hands back NULL.
loop_iteration(s, start, loc, language, completion_info, ub) ==
  LET o == explicit_location_lex_one(s, start, language, FALSE)
  IN  IF o.error # "none" THEN IterResult("lex_error", start, loc, o.error)
      ELSE IF o.tok = NULL /\ ub = "crash"
      THEN IterResult("null_option", start, loc, "crash")
      ELSE
      LET opt == IF o.tok = NULL THEN << >> ELSE o.tok[1]
          argp == skip_spaces(s, o.inp)
          branch == option_branch(opt)
      IN  CASE branch = "source" ->
                 iteration_with_argument(s, start, loc, completion_info,
                    branch, "source_filename",
                    explicit_location_lex_one(s, argp, language,
                                              completion_info))
            [] branch = "function" ->
                 iteration_with_argument(s, start, loc, completion_info,
                    branch, "function_name",
                    explicit_location_lex_one_function(s, argp, language,
                                                       completion_info))
            [] branch = "qualified" ->
                 IterResult(branch, skip_spaces(s, argp),
                            [loc EXCEPT !.func_name_match_type = "FULL"],
                            "continue")
            [] branch = "line" ->
                 iteration_line(s, start, loc, completion_info,
                    explicit_location_lex_one(s, argp, language, FALSE))
            [] branch = "label" ->
                 iteration_with_argument(s, start, loc, completion_info,
                    branch, "label_name",
                    explicit_location_lex_one(s, argp, language,
                                              completion_info))
            [] branch = "invalid" ->
                 IF ~completion_info
                 THEN IterResult(branch, argp, loc, "invalid_option")
                 ELSE IterResult(branch, skip_spaces(s, argp), loc,
                                 "continue")
            [] branch = "terminate" ->
                 IterResult(branch, start, loc, "break")

\* The check after the loop, forgetting the line offset.
source_filename_alone_no_line(loc) ==
  /\ loc.source_filename # NULL
  /\ loc.function_name = NULL
  /\ loc.label_name = NULL

\* The check after the loop: a source filename given alone.
source_filename_alone(loc) ==
  /\ loc.source_filename # NULL
  /\ loc.function_name = NULL
  /\ loc.label_name = NULL
  /\ loc.line_offset.sign = "UNKNOWN"

\* ------------------------------------------------------------------------
\* Location objects and the strings they own.
\*
\* An owned `char *' of an object is the address of a cell of the heap, 0
\* for NULL; a std::string member is held by value.  FromValue builds an
\* object from the record a constructor computes, Payload reads it back.

\* A cell of the heap: the string stored, and whether it is still allocated.
Cell(str, live) == [str |-> str, live |-> live]

\* xstrdup / savestring: a new cell holding STR; NULL stays NULL.
Allocate(heap, str) ==
  IF str = NULL THEN [heap |-> heap, ptr |-> 0]
  ELSE [heap |-> Append(heap, Cell(str[1], TRUE)), ptr |-> Len(heap) + 1]

\* A copy that keeps the pointer instead of duplicating the string.
xstrdup_alias(heap, ptr) == [heap |-> heap, ptr |-> ptr]

\* if (p != nullptr) p = xstrdup (p);
xstrdup(heap, ptr) ==
  IF ptr = 0 THEN [heap |-> heap, ptr |-> 0]
  ELSE Allocate(heap, Some(heap[ptr].str))

\* xfree (p)
xfree(heap, ptr) ==
  IF ptr = 0 THEN heap
  ELSE [heap EXCEPT ![ptr] = Cell(heap[ptr].str, FALSE)]

\* *p as a string, NULL for a null pointer.
Deref(heap, ptr) == IF ptr = 0 THEN NULL ELSE Some(heap[ptr].str)

\* The object a constructor builds from the record LOCATION it computed:
\* its strings stored in new cells.
FromValue(heap, location) ==
  LET a1 == Allocate(heap, location.linespec_location.spec_string)
      a2 == Allocate(a1.heap, location.explicit_loc.source_filename)
      a3 == Allocate(a2.heap, location.explicit_loc.function_name)
      a4 == Allocate(a3.heap, location.explicit_loc.label_name)
  IN  [heap |-> a4.heap,
       location |->
         [location EXCEPT !.linespec_location.spec_string = a1.ptr,
                          !.explicit_loc.source_filename = a2.ptr,
                          !.explicit_loc.function_name = a3.ptr,
                          !.explicit_loc.label_name = a4.ptr]]

\* The object LOCATION with its pointers followed.
Payload(heap, location) ==
  [location EXCEPT
     !.linespec_location.spec_string =
        Deref(heap, location.linespec_location.spec_string),
     !.explicit_loc.source_filename =
        Deref(heap, location.explicit_loc.source_filename),
     !.explicit_loc.function_name =
        Deref(heap, location.explicit_loc.function_name),
     !.explicit_loc.label_name =
        Deref(heap, location.explicit_loc.label_name)]

\* The cells LOCATION points to.
OwnedCells(location) ==
  {location.linespec_location.spec_string,
   location.explicit_loc.source_filename,
   location.explicit_loc.function_name,
   location.explicit_loc.label_name} \ {0}

\* copy_loc: the strings of LOC duplicated.
copy_loc(heap, loc) ==
  LET d1 == xstrdup(heap, loc.source_filename)
      d2 == xstrdup(d1.heap, loc.function_name)
      d3 == xstrdup(d2.heap, loc.label_name)
  IN  [heap |-> d3.heap,
       loc |-> [initialize_explicit_location EXCEPT
                  !.func_name_match_type = loc.func_name_match_type,
                  !.source_filename = d1.ptr,
                  !.function_name = d2.ptr,
                  !.label_name = d3.ptr,
                  !.line_offset = loc.line_offset]]

\* clone () of the four variants: the copy constructors.
clone(heap, location) ==
  CASE location.type = "LINESPEC" ->
         LET d == xstrdup(heap, location.linespec_location.spec_string)
         IN  [heap |-> d.heap,
              location |-> [location EXCEPT
                              !.linespec_location.spec_string = d.ptr]]
    [] location.type = "EXPLICIT" ->
         LET c == copy_loc(heap, location.explicit_loc)
         IN  [heap |-> c.heap,
              location |-> [location EXCEPT !.explicit_loc = c.loc]]
    [] OTHER -> [heap |-> heap, location |-> location]

\* The destructors: ~event_location_linespec, ~event_location_explicit.
destroy(heap, location) ==
  CASE location.type = "LINESPEC" ->
         xfree(heap, location.linespec_location.spec_string)
    [] location.type = "EXPLICIT" ->
         xfree(xfree(xfree(heap, location.explicit_loc.source_filename),
                     location.explicit_loc.function_name),
               location.explicit_loc.label_name)
    [] OTHER -> heap

\* gdb_assert failed: internal_error.
AssertionFailed == [assert |-> FALSE]

Returned(value) == [assert |-> TRUE, value |-> value]

\* The typed accessors, on the payload LOCATION.
get_linespec_location(location) ==
  IF location.type = "LINESPEC" THEN Returned(location.linespec_location)
  ELSE AssertionFailed

get_address_location(location) ==
  IF location.type = "ADDRESS" THEN Returned(location.address)
  ELSE AssertionFailed

get_address_string_location(location) ==
  IF location.type = "ADDRESS" THEN Returned(to_string(location))
  ELSE AssertionFailed

\* An accessor without its gdb_assert.
get_probe_location_unchecked(location) == Returned(to_string(location))

get_probe_location(location) ==
  IF location.type = "PROBE" THEN Returned(to_string(location))
  ELSE AssertionFailed

get_explicit_location(location) ==
  IF location.type = "EXPLICIT" THEN Returned(location.explicit_loc)
  ELSE AssertionFailed

get_explicit_location_const(location) ==
  IF location.type = "EXPLICIT" THEN Returned(location.explicit_loc)
  ELSE AssertionFailed

\* ------------------------------------------------------------------------
\* The input texts: up to MaxFragments fragments joined by single spaces.

Fragments ==
  { << >>,
    OPT_SOURCE,
    OPT_FUNCTION,
    <<"-", "f", "u", "n", "c">>,
    OPT_QUALIFIED,
    OPT_LINE,
    OPT_LABEL,
    <<"-", "x">>,
    <<"-", "p">>,
    <<"a">>,
    <<"1">>,
    <<"-", "1">>,
    <<"\"", "a", ",", " ", "-", "b", "\"">>,
    <<"\"", "a">>,
    <<",">>,
    <<"*", "1">>,
    <<"i", "f">>,
    <<"a", "i", "f", " ", "a">>,
    OPT_SOURCE \o <<" ", "a">>,
    OPT_FUNCTION \o <<" ", "a">>,
    OPT_LINE \o <<" ", "1">>,
    OPT_LABEL \o <<" ", "a">>,
    CP_OPERATOR_STR \o <<"-">>,
    CP_OPERATOR_STR \o <<",">>,
    CP_OPERATOR_STR \o <<"-", "-">>,
    <<"x">> \o CP_OPERATOR_STR \o <<"-">>,
    OPT_FUNCTION \o <<" ">> \o CP_OPERATOR_STR \o <<"-">> }

\* The fragments WS joined by single spaces, from the I-th on.
RECURSIVE Join(_, _)
Join(ws, i) ==
  IF i > Len(ws) THEN << >>
  ELSE IF i = Len(ws) THEN ws[i]
  ELSE ws[i] \o <<" ">> \o Join(ws, i + 1)

Phrase(ws) == Join(ws, 1)

Inputs ==
  { Phrase(ws) : ws \in UNION { [1..n -> Fragments] : n \in 0..MaxFragments } }

\* The ways the parser is entered: string_to_event_location with a default
\* match type, or string_to_explicit_location with a completion info.
Entries ==
  { [entry |-> "event", completion_info |-> FALSE, match_type |-> m] :
       m \in {"WILD", "FULL"} }
  \cup { [entry |-> "explicit", completion_info |-> TRUE,
          match_type |-> "WILD"] }

\* ------------------------------------------------------------------------
\* The state.

VARIABLES
  input,            \* *stringp / *argp at the call: NULL or the text
  entry,            \* "event": string_to_event_location; "explicit":
                    \* string_to_explicit_location called directly
  completion_info,  \* TRUE when a completion info is passed
  language,         \* language->la_language
  default_match,    \* the caller's match_type argument
  pc,               \* where the call stands
  argp,             \* the cursor of string_to_explicit_location (arg)
  stringp,          \* the cursor of string_to_event_location (*stringp)
  xloc,             \* location->explicit_loc while it is being parsed
  match_type,       \* match_type inside string_to_event_location
  location,         \* the location returned
  error,            \* the error raised, "none" when none
  returned_string,  \* what event_location_to_string returned last
  pass,             \* 1: the caller's text; 2: the rendered string re-parsed
  first_string,     \* pass 2: what pass 1 rendered
  heap,             \* the strings allocated for location objects
  objects,          \* the location objects a caller holds, by handle
  op,               \* the last call on an object and what it returned
  first_render,     \* per object: what its first event_location_to_string
                    \* returned, << >> before that call
  string_set        \* per object: set_event_location_string was called

vars == <<input, entry, completion_info, language, default_match, pc, argp,
          stringp, xloc, match_type, location, error, returned_string, pass,
          first_string, heap, objects, op, first_render, string_set>>

Text == IF input = NULL THEN << >> ELSE input[1]

\* The handles of the objects a caller holds.
Handles == {"location", "copy"}

object_vars == <<heap, objects, op, first_render, string_set>>

\* No object has been built.
NoObjects ==
  /\ heap = << >>
  /\ objects = [h \in Handles |-> NoLocation]
  /\ op = [name |-> "none", on |-> "location", result |-> Returned(NULL)]
  /\ first_render = [h \in Handles |-> << >>]
  /\ string_set = [h \in Handles |-> FALSE]

Init ==
  /\ input \in {NULL} \cup {Some(t) : t \in Inputs}
  /\ \E e \in Entries :
        /\ entry = e.entry
        /\ completion_info = e.completion_info
        /\ default_match = e.match_type
  /\ language \in Languages
  /\ pc = "start"
  /\ argp = 1
  /\ stringp = 1
  /\ xloc = initialize_explicit_location
  /\ match_type = default_match
  /\ location = NoLocation
  /\ error = "none"
  /\ returned_string = NULL
  /\ pass = 1
  /\ first_string = NULL
  /\ NoObjects

call_vars == <<input, entry, completion_info, language, default_match, pass,
               first_string, object_vars>>

\* ------------------------------------------------------------------------
\* string_to_explicit_location.

\* The input does not start an explicit location: NULL is returned.
ExplicitNotApplicable ==
  /\ pc = "start"
  /\ ~is_explicit_start(input)
  /\ pc' = IF entry = "event" THEN "basic" ELSE "done"
  /\ UNCHANGED <<argp, stringp, xloc, match_type, location, error,
                 returned_string>>
  /\ UNCHANGED call_vars

\* new event_location_explicit (nullptr)
ExplicitBegin ==
  /\ pc = "start"
  /\ is_explicit_start(input)
  /\ xloc' = initialize_explicit_location
  /\ pc' = "loop"
  /\ UNCHANGED <<argp, stringp, match_type, location, error, returned_string>>
  /\ UNCHANGED call_vars

\* The while condition fails, or a keyword starts at *argp.
LoopExit ==
  /\ pc = "loop"
  /\ ~loop_continues(Text, argp)
  /\ pc' = "validate"
  /\ UNCHANGED <<argp, stringp, xloc, match_type, location, error,
                 returned_string>>
  /\ UNCHANGED call_vars

\* The iterations the loop may take from the current state.
Iterations ==
  { loop_iteration(Text, argp, xloc, language, completion_info, ub) :
      ub \in NullOptOutcomes }

\* The state after the iteration R.
Iterate(r) ==
  /\ argp' = r.argp
  /\ xloc' = r.loc
  /\ pc' = CASE r.outcome = "continue" -> "loop"
             [] r.outcome = "break" -> "validate"
             [] OTHER -> "done"
  /\ error' = IF r.outcome \in {"continue", "break"} THEN "none"
              ELSE r.outcome
  /\ UNCHANGED <<stringp, match_type, location, returned_string>>
  /\ UNCHANGED call_vars

\* -source
OptSource ==
  /\ pc = "loop"
  /\ loop_continues(Text, argp)
  /\ \E r \in Iterations : r.branch = "source" /\ Iterate(r)

\* -function
OptFunction ==
  /\ pc = "loop"
  /\ loop_continues(Text, argp)
  /\ \E r \in Iterations : r.branch = "function" /\ Iterate(r)

\* -qualified
OptQualified ==
  /\ pc = "loop"
  /\ loop_continues(Text, argp)
  /\ \E r \in Iterations : r.branch = "qualified" /\ Iterate(r)

\* -line
OptLine ==
  /\ pc = "loop"
  /\ loop_continues(Text, argp)
  /\ \E r \in Iterations : r.branch = "line" /\ Iterate(r)

\* -label
OptLabel ==
  /\ pc = "loop"
  /\ loop_continues(Text, argp)
  /\ \E r \in Iterations : r.branch = "label" /\ Iterate(r)

\* an option-like string that is no option
OptInvalid ==
  /\ pc = "loop"
  /\ loop_continues(Text, argp)
  /\ \E r \in Iterations : r.branch = "invalid" /\ Iterate(r)

\* a string that does not look like an option
OptTerminate ==
  /\ pc = "loop"
  /\ loop_continues(Text, argp)
  /\ \E r \in Iterations : r.branch = "terminate" /\ Iterate(r)

\* the option lexer raises an error
OptLexError ==
  /\ pc = "loop"
  /\ loop_continues(Text, argp)
  /\ \E r \in Iterations : r.branch = "lex_error" /\ Iterate(r)

\* strlen of the null option string
OptNullOption ==
  /\ pc = "loop"
  /\ loop_continues(Text, argp)
  /\ \E r \in Iterations : r.branch = "null_option" /\ Iterate(r)

\* The check after the loop, and the return.
Validate ==
  /\ pc = "validate"
  /\ IF source_filename_alone(xloc) /\ ~completion_info
     THEN /\ error' = "source_alone"
          /\ pc' = "done"
          /\ UNCHANGED location
     ELSE /\ error' = "none"
          /\ IF entry = "event"
             THEN pc' = "dispatch" /\ UNCHANGED location
             ELSE pc' = "returned" /\ location' = new_explicit_location(xloc)
  /\ UNCHANGED <<argp, stringp, xloc, match_type, returned_string>>
  /\ UNCHANGED call_vars

\* ------------------------------------------------------------------------
\* string_to_event_location, after string_to_explicit_location returned a
\* location.

\* The user really specified a location.
ReturnExplicit ==
  /\ pc = "dispatch"
  /\ ~event_location_empty_p(new_explicit_location(xloc))
  /\ stringp' = stringp + (argp - 1)
  /\ location' = new_explicit_location(xloc)
  /\ pc' = "returned"
  /\ UNCHANGED <<argp, xloc, match_type, error, returned_string>>
  /\ UNCHANGED call_vars

\* The fall through that forgets the flags of the discarded location.
DiscardEmptyExplicitLosingFlags ==
  /\ pc = "dispatch"
  /\ event_location_empty_p(new_explicit_location(xloc))
  /\ stringp' = stringp + (argp - 1)
  /\ pc' = "basic"
  /\ UNCHANGED <<argp, xloc, match_type, location, error, returned_string>>
  /\ UNCHANGED call_vars

\* Only flags were given: keep the match type, discard the location.
DiscardEmptyExplicit ==
  /\ pc = "dispatch"
  /\ event_location_empty_p(new_explicit_location(xloc))
  /\ stringp' = stringp + (argp - 1)
  /\ match_type' = xloc.func_name_match_type
  /\ pc' = "basic"
  /\ UNCHANGED <<argp, xloc, location, error, returned_string>>
  /\ UNCHANGED call_vars

\* ------------------------------------------------------------------------
\* string_to_event_location_basic.

BasicProbe ==
  /\ pc = "basic"
  /\ input # NULL /\ probe_linespec_to_static_ops(Text, stringp)
  /\ location' = new_probe_location(SubSeq(Text, stringp, Len(Text)))
  /\ stringp' = Len(Text) + 1
  /\ pc' = "returned"
  /\ UNCHANGED <<argp, xloc, match_type, error, returned_string>>
  /\ UNCHANGED call_vars

\* The address branch consuming the rest of the input.
BasicAddressToEnd ==
  /\ pc = "basic"
  /\ ~(input # NULL /\ probe_linespec_to_static_ops(Text, stringp))
  /\ input # NULL /\ At(Text, stringp) = "*"
  /\ LET orig == stringp
         r == linespec_expression_to_pc(Text, orig)
     IN  /\ location' = new_address_location(r.addr,
                           savestring(Text, orig, r.arg - orig))
         /\ stringp' = Len(Text) + 1
  /\ pc' = "returned"
  /\ UNCHANGED <<argp, xloc, match_type, error, returned_string>>
  /\ UNCHANGED call_vars

BasicAddress ==
  /\ pc = "basic"
  /\ ~(input # NULL /\ probe_linespec_to_static_ops(Text, stringp))
  /\ input # NULL /\ At(Text, stringp) = "*"
  /\ LET orig == stringp
         r == linespec_expression_to_pc(Text, orig)
     IN  /\ location' = new_address_location(r.addr,
                           savestring(Text, orig, r.arg - orig))
         /\ stringp' = stringp + (r.arg - orig)
  /\ pc' = "returned"
  /\ UNCHANGED <<argp, xloc, match_type, error, returned_string>>
  /\ UNCHANGED call_vars

\* The linespec branch taken without looking for `*'.
BasicLinespecAnyText ==
  /\ pc = "basic"
  /\ ~(input # NULL /\ probe_linespec_to_static_ops(Text, stringp))
  /\ LET r == new_linespec_location(input, stringp, match_type)
     IN  /\ location' = r.location
         /\ stringp' = r.linespec
         /\ error' = r.error
         /\ pc' = IF r.error = "none" THEN "returned" ELSE "done"
  /\ UNCHANGED <<argp, xloc, match_type, returned_string>>
  /\ UNCHANGED call_vars

BasicLinespec ==
  /\ pc = "basic"
  /\ ~(input # NULL /\ probe_linespec_to_static_ops(Text, stringp))
  /\ ~(input # NULL /\ At(Text, stringp) = "*")
  /\ LET r == new_linespec_location(input, stringp, match_type)
     IN  /\ location' = r.location
         /\ stringp' = r.linespec
         /\ error' = r.error
         /\ pc' = IF r.error = "none" THEN "returned" ELSE "done"
  /\ UNCHANGED <<argp, xloc, match_type, returned_string>>
  /\ UNCHANGED call_vars

\* ------------------------------------------------------------------------
\* Rendering, and the re-parse of the rendered string.

\* event_location_to_string (location)
Render ==
  /\ pc = "returned"
  /\ location' = [location EXCEPT !.as_string = to_string_cache(location)]
  /\ returned_string' = to_string(location)
  /\ pc' = IF entry = "event" /\ pass = 1 THEN "rendered" ELSE "done"
  /\ UNCHANGED <<argp, stringp, xloc, match_type, error>>
  /\ UNCHANGED call_vars

\* string_to_event_location on the string that was rendered, as when a
\* saved breakpoint is restored.
Reparse ==
  /\ pc = "rendered"
  /\ input' = returned_string
  /\ first_string' = returned_string
  /\ pass' = 2
  /\ pc' = "start"
  /\ argp' = 1
  /\ stringp' = 1
  /\ xloc' = initialize_explicit_location
  /\ match_type' = default_match
  /\ location' = NoLocation
  /\ error' = "none"
  /\ returned_string' = NULL
  /\ UNCHANGED <<entry, completion_info, language, default_match,
                 object_vars>>

Next ==
  \/ ExplicitNotApplicable
  \/ ExplicitBegin
  \/ LoopExit
  \/ OptSource
  \/ OptFunction
  \/ OptQualified
  \/ OptLine
  \/ OptLabel
  \/ OptInvalid
  \/ OptTerminate
  \/ OptLexError
  \/ OptNullOption
  \/ Validate
  \/ ReturnExplicit
  \/ DiscardEmptyExplicit
  \/ BasicProbe
  \/ BasicAddress
  \/ BasicLinespec
  \/ Render
  \/ Reparse

Spec == Init /\ [][Next]_vars

\* ------------------------------------------------------------------------
\* Calls on location objects: construction from fields or from text, then
\* event_location_to_string, set_event_location_string, the accessors,
\* event_location_empty_p, copy_event_location and the deleter.

\* What the constructors are called with.
ProbeStrings == {<< >>, <<"-", "p", " ", "a">>}

LinespecTexts == {NULL, Some(<< >>), Some(<<"a">>), Some(<<"a", " ">>)}

AddressTexts == {<<"*", "1">>, <<"*", "2", "6", " ", "a">>}

AddressFields ==
  {[addr |-> a, addr_string |-> str] :
     a \in {1, 26}, str \in {NULL, Some(<< >>), Some(<<"*", "0", "x", "1">>)}}

ExplicitFields ==
  [source_filename : {NULL, Some(<<"s">>)},
   function_name : {NULL, Some(<<"f">>)},
   label_name : {NULL, Some(<<"l">>)},
   line_offset : {[sign |-> "UNKNOWN", offset |-> 0],
                  [sign |-> "NONE", offset |-> 1],
                  [sign |-> "PLUS", offset |-> 2],
                  [sign |-> "MINUS", offset |-> 3]},
   func_name_match_type : {"WILD", "FULL"}]

\* A construction: the function called, its arguments and the location it
\* computes.
Construction(call, args, built) ==
  [call |-> call, args |-> args, location |-> built]

\* The constructions: new_probe_location, new_linespec_location,
\* new_address_location (called with fields, and as
\* string_to_event_location_basic calls it on a text), new_explicit_location.
Constructed ==
  {Construction("new_probe_location", <<str>>, new_probe_location(str)) :
     str \in ProbeStrings}
  \cup {Construction("new_linespec_location", <<t, m>>,
                     new_linespec_location(t, 1, m).location) :
          t \in LinespecTexts, m \in {"WILD", "FULL"}}
  \cup {Construction("new_address_location", <<f.addr, f.addr_string>>,
                     new_address_location(f.addr, f.addr_string)) :
          f \in AddressFields}
  \cup {LET r == linespec_expression_to_pc(t, 1)
        IN  Construction("string_to_event_location_basic", <<t>>,
                         new_address_location(r.addr,
                                              savestring(t, 1, r.arg - 1))) :
          t \in AddressTexts}
  \cup {Construction("new_explicit_location", <<f>>,
                     new_explicit_location(f)) :
          f \in ExplicitFields}

\* The strings set_event_location_string is called with.
SetStrings == {<<"z">>}

\* The function name a caller writes through get_explicit_location.
WrittenNames == {<<"g">>}

\* The state after one of CONSTRUCTIONS has been made.
Construct(constructions) ==
  /\ input = NULL
  /\ entry = "object"
  /\ completion_info = FALSE
  /\ default_match = "WILD"
  /\ language \in Languages
  /\ pc = "object"
  /\ argp = 1
  /\ stringp = 1
  /\ xloc = initialize_explicit_location
  /\ match_type = default_match
  /\ location = NoLocation
  /\ error = "none"
  /\ returned_string = NULL
  /\ pass = 1
  /\ first_string = NULL
  /\ \E c \in constructions :
        LET b == FromValue(<< >>, c.location)
        IN  /\ heap = b.heap
            /\ objects = [h \in Handles |->
                            IF h = "location" THEN b.location ELSE NoLocation]
            /\ op = [name |-> c.call, on |-> "location",
                     result |-> Returned(c.args)]
  /\ first_render = [h \in Handles |-> << >>]
  /\ string_set = [h \in Handles |-> FALSE]

ObjInit == Construct(Constructed)

\* The locations that are copied: every variant, the explicit ones with and
\* without each string.
CopiedFrom ==
  {c \in Constructed :
     \/ c.location.explicit_loc.line_offset.sign = "UNKNOWN"
        /\ c.location.explicit_loc.func_name_match_type = "WILD"
     \/ c.location.explicit_loc.line_offset.sign = "MINUS"
        /\ c.location.explicit_loc.func_name_match_type = "FULL"}

CopyInit == Construct(CopiedFrom)

parser_vars == <<input, entry, completion_info, language, default_match, pc,
                 argp, stringp, xloc, match_type, location, error,
                 returned_string, pass, first_string>>

Live(h) == objects[h].type # "NONE"

\* A gdb_assert has failed: the session is over.
Aborted == ~op.result.assert

Callable(h) == pc = "object" /\ ~Aborted /\ Live(h)

\* event_location_to_string (objects[h])
ObjToString ==
  \E h \in Handles :
    /\ Callable(h)
    /\ LET v == Payload(heap, objects[h])
       IN  /\ objects' = [objects EXCEPT ![h].as_string = to_string_cache(v)]
           /\ op' = [name |-> "to_string", on |-> h,
                     result |-> Returned(to_string(v))]
           /\ first_render' =
                IF first_render[h] = << >>
                THEN [first_render EXCEPT ![h] = <<to_string(v)>>]
                ELSE first_render
    /\ UNCHANGED <<heap, string_set, parser_vars>>

\* set_event_location_string (objects[h], str)
ObjSetString ==
  \E h \in Handles, str \in SetStrings :
    /\ Callable(h)
    /\ ~string_set[h]
    /\ objects' = [objects EXCEPT ![h].as_string = str]
    /\ string_set' = [string_set EXCEPT ![h] = TRUE]
    /\ op' = [name |-> "set_string", on |-> h, result |-> Returned(NULL)]
    /\ UNCHANGED <<heap, first_render, parser_vars>>

\* A caller writes a function name through get_explicit_location:
\* xfree (e->function_name); e->function_name = xstrdup (name);
ObjWriteFunctionName ==
  \E h \in Handles, name \in WrittenNames :
    /\ Callable(h)
    /\ get_explicit_location(objects[h]).assert
    /\ Len(heap) < MaxCells
    /\ LET e == get_explicit_location(objects[h]).value
           a == Allocate(xfree(heap, e.function_name), Some(name))
       IN  /\ heap' = a.heap
           /\ objects' = [objects EXCEPT
                            ![h].explicit_loc.function_name = a.ptr]
    /\ op' = [name |-> "write", on |-> h, result |-> Returned(NULL)]
    /\ UNCHANGED <<first_render, string_set, parser_vars>>

\* copy_event_location (objects["location"])
ObjCopy ==
  /\ Callable("location")
  /\ ~Live("copy")
  /\ Len(heap) + Cardinality(OwnedCells(objects["location"])) <= MaxCells
  /\ LET c == clone(heap, objects["location"])
     IN  /\ heap' = c.heap
         /\ objects' = [objects EXCEPT !["copy"] = c.location]
  /\ first_render' = [first_render EXCEPT !["copy"] = << >>]
  /\ string_set' = [string_set EXCEPT !["copy"] = string_set["location"]]
  /\ op' = [name |-> "copy", on |-> "location", result |-> Returned(NULL)]
  /\ UNCHANGED parser_vars

\* event_location_deleter: delete objects[h]
ObjDelete ==
  \E h \in Handles :
    /\ Callable(h)
    /\ heap' = destroy(heap, objects[h])
    /\ objects' = [objects EXCEPT ![h] = NoLocation]
    /\ first_render' = [first_render EXCEPT ![h] = << >>]
    /\ string_set' = [string_set EXCEPT ![h] = FALSE]
    /\ op' = [name |-> "delete", on |-> h, result |-> Returned(NULL)]
    /\ UNCHANGED parser_vars

\* event_location_empty_p (objects[h])
ObjEmptyP ==
  \E h \in Handles :
    /\ Callable(h)
    /\ op' = [name |-> "empty_p", on |-> h,
              result |->
                Returned(event_location_empty_p(Payload(heap, objects[h])))]
    /\ UNCHANGED <<heap, objects, first_render, string_set, parser_vars>>

\* explicit_location_to_linespec (get_explicit_location_const (objects[h]))
ObjToLinespec ==
  \E h \in Handles :
    /\ Callable(h)
    /\ objects[h].type = "EXPLICIT"
    /\ op' = [name |-> "to_linespec", on |-> h,
              result |->
                Returned(explicit_location_to_linespec(
                           Payload(heap, objects[h]).explicit_loc))]
    /\ UNCHANGED <<heap, objects, first_render, string_set, parser_vars>>

\* get_linespec_location (objects[h])
ObjGetLinespec ==
  \E h \in Handles :
    /\ Callable(h)
    /\ op' = [name |-> "get_linespec_location", on |-> h,
              result |-> get_linespec_location(Payload(heap, objects[h]))]
    /\ UNCHANGED <<heap, objects, first_render, string_set, parser_vars>>

\* get_address_location (objects[h])
ObjGetAddress ==
  \E h \in Handles :
    /\ Callable(h)
    /\ op' = [name |-> "get_address_location", on |-> h,
              result |-> get_address_location(Payload(heap, objects[h]))]
    /\ UNCHANGED <<heap, objects, first_render, string_set, parser_vars>>

\* get_address_string_location (objects[h]): it returns location->to_string ().
ObjGetAddressString ==
  \E h \in Handles :
    /\ Callable(h)
    /\ LET v == Payload(heap, objects[h])
       IN  /\ op' = [name |-> "get_address_string_location", on |-> h, result |-> get_address_string_location(v)]
           /\ objects' = IF get_address_string_location(v).assert
                         THEN [objects EXCEPT
                                 ![h].as_string = to_string_cache(v)]
                         ELSE objects
           /\ first_render' =
                IF get_address_string_location(v).assert /\ first_render[h] = << >>
                THEN [first_render EXCEPT ![h] = <<to_string(v)>>]
                ELSE first_render
    /\ UNCHANGED <<heap, string_set, parser_vars>>

\* get_probe_location (objects[h]): it returns location->to_string ().
ObjGetProbe ==
  \E h \in Handles :
    /\ Callable(h)
    /\ LET v == Payload(heap, objects[h])
       IN  /\ op' = [name |-> "get_probe_location", on |-> h, result |-> get_probe_location(v)]
           /\ objects' = IF get_probe_location(v).assert
                         THEN [objects EXCEPT
                                 ![h].as_string = to_string_cache(v)]
                         ELSE objects
           /\ first_render' =
                IF get_probe_location(v).assert /\ first_render[h] = << >>
                THEN [first_render EXCEPT ![h] = <<to_string(v)>>]
                ELSE first_render
    /\ UNCHANGED <<heap, string_set, parser_vars>>

\* get_explicit_location (objects[h])
ObjGetExplicit ==
  \E h \in Handles :
    /\ Callable(h)
    /\ op' = [name |-> "get_explicit_location", on |-> h,
              result |-> get_explicit_location(Payload(heap, objects[h]))]
    /\ UNCHANGED <<heap, objects, first_render, string_set, parser_vars>>

\* get_explicit_location_const (objects[h])
ObjGetExplicitConst ==
  \E h \in Handles :
    /\ Callable(h)
    /\ op' = [name |-> "get_explicit_location_const", on |-> h,
              result |-> get_explicit_location_const(Payload(heap, objects[h]))]
    /\ UNCHANGED <<heap, objects, first_render, string_set, parser_vars>>

ObjNext ==
  \/ ObjToString
  \/ ObjSetString
  \/ ObjWriteFunctionName
  \/ ObjDelete
  \/ ObjEmptyP
  \/ ObjToLinespec
  \/ ObjGetLinespec
  \/ ObjGetAddress
  \/ ObjGetAddressString
  \/ ObjGetProbe
  \/ ObjGetExplicit
  \/ ObjGetExplicitConst

ObjSpec == ObjInit /\ [][ObjNext]_vars

\* A location and its copy, each rendered, written to and deleted.
CopyNext ==
  \/ ObjCopy
  \/ ObjToString
  \/ ObjSetString
  \/ ObjWriteFunctionName
  \/ ObjDelete

CopySpec == CopyInit /\ [][CopyNext]_vars

\* ------------------------------------------------------------------------
\* explicit_location_lex_one called on a text that opens with a quote.

\* The characters after the opening quote: the two quote characters, the
\* backslash and a letter.
QuotedAlphabet == {"\"", "'", "\\", "a"}

QuotedTexts ==
  {<<q>> \o body :
     q \in QuoteChars,
     body \in UNION {[1..n -> QuotedAlphabet] : n \in 0..MaxQuoted}}

LexInit ==
  /\ input \in {Some(t) : t \in QuotedTexts}
  /\ entry = "lex"
  /\ completion_info \in BOOLEAN
  /\ default_match = "WILD"
  /\ language \in Languages
  /\ pc = "lex"
  /\ argp = 1
  /\ stringp = 1
  /\ xloc = initialize_explicit_location
  /\ match_type = default_match
  /\ location = NoLocation
  /\ error = "none"
  /\ returned_string = NULL
  /\ pass = 1
  /\ first_string = NULL
  /\ NoObjects

\* explicit_location_lex_one (&argp, language, completion_info): the token
\* it returns is kept in returned_string.
LexOne ==
  /\ pc = "lex"
  /\ LET r == explicit_location_lex_one(Text, argp, language, completion_info)
     IN  /\ returned_string' = r.tok
         /\ argp' = r.inp
         /\ error' = r.error
  /\ pc' = "lexed"
  /\ UNCHANGED <<input, entry, completion_info, language, default_match,
                 stringp, xloc, match_type, location, pass, first_string,
                 object_vars>>

LexNext == LexOne

LexSpec == LexInit /\ [][LexNext]_vars

\* ------------------------------------------------------------------------
\* Properties.

OptionNames == {OPT_SOURCE, OPT_FUNCTION, OPT_QUALIFIED, OPT_LINE, OPT_LABEL}

ArgumentOptions == {"source", "function", "line", "label"}

RaisedErrors ==
  {"unmatched_quote", "invalid_option", "missing_argument", "source_alone"}

IsPrefix(p, name) ==
  /\ Len(p) <= Len(name)
  /\ \A i \in 1..Len(p) : p[i] = name[i]

\* P abbreviates NAME and no other option.
UniquePrefix(p, name) ==
  /\ Len(p) >= 2
  /\ IsPrefix(p, name)
  /\ \A other \in OptionNames \ {name} : ~IsPrefix(p, other)

\* S with the LEN characters at index AT replaced by NEW.
Replace(s, at, len, new) ==
  SubSeq(s, 1, at - 1) \o new \o SubSeq(s, at + len, Len(s))

\* Only a source filename is set in LOC.
OnlySource(loc) ==
  /\ loc.source_filename # NULL
  /\ loc.function_name = NULL
  /\ loc.label_name = NULL
  /\ loc.line_offset.sign = "UNKNOWN"

\* Nothing but the match type is set in LOC.
OnlyFlags(loc) ==
  /\ loc.source_filename = NULL
  /\ loc.function_name = NULL
  /\ loc.label_name = NULL
  /\ loc.line_offset.sign = "UNKNOWN"

\* The loop is about to lex an option string.
AtOption == pc = "loop" /\ loop_continues(Text, argp)

\* The option string the loop is about to lex, and where its argument starts.
NextOption == explicit_location_lex_one(Text, argp, language, FALSE)

NextArgument == skip_spaces(Text, NextOption.inp)

\* C1: round trip.  When the string rendered from a location that
\* string_to_event_location produced is parsed again, the parse succeeds and
\* the location it gives renders to the same string.
C1_RoundTrip ==
  (pass = 2 /\ pc = "done")
     => (error = "none" /\ returned_string = first_string)

\* C2: empty-explicit fallback.  string_to_event_location never returns an
\* explicit location with nothing but flags set; when the explicit parser
\* gave such a location, the result comes from the basic resolution of the
\* input left at the explicit parser's cursor, and a linespec carries the
\* match type that parser captured.
C2_EmptyExplicitFallback ==
  (entry = "event" /\ location.type # "NONE")
     => /\ ~(location.type = "EXPLICIT" /\ OnlyFlags(location.explicit_loc))
        /\ (is_explicit_start(input) /\ OnlyFlags(xloc))
             => ( /\ location.type # "EXPLICIT"
                  /\ (location.type = "LINESPEC")
                       => ( /\ location.linespec_location.match_type
                                 = xloc.func_name_match_type
                            /\ (location.linespec_location.spec_string # NULL)
                                 => IsPrefix(
                                      location.linespec_location.spec_string[1],
                                      SubSeq(Text, argp, Len(Text))) ) )

\* C2 witness: "-qualified a" with the default WILD gave the linespec "a"
\* with match type FULL.
C2_Witness ==
  /\ entry = "event" /\ pass = 1 /\ default_match = "WILD"
  /\ Text = Phrase(<<OPT_QUALIFIED, <<"a">>>>)
  /\ location.type = "LINESPEC"
  /\ location.linespec_location.match_type = "FULL"
  /\ location.linespec_location.spec_string = Some(<<"a">>)

\* Where string_to_event_location_basic started: the explicit parser's
\* cursor when it returned a location, the start of the input otherwise.
BasicStart == IF is_explicit_start(input) THEN argp ELSE 1

\* C3: the order of the basic resolution.  An input the probe recogniser
\* accepts gives a probe location holding the whole remaining input, with
\* the cursor at the end of the input; otherwise an input starting with `*'
\* gives an address location, with the cursor advanced by the span the
\* address parser consumed; otherwise the result is a linespec location.
C3_BasicOrder ==
  (entry = "event" /\ location.type \in {"PROBE", "ADDRESS", "LINESPEC"})
     => IF input # NULL /\ probe_linespec_to_static_ops(Text, BasicStart)
        THEN /\ location.type = "PROBE"
             /\ location.as_string = SubSeq(Text, BasicStart, Len(Text))
             /\ stringp = Len(Text) + 1
        ELSE IF input # NULL /\ At(Text, BasicStart) = "*"
        THEN /\ location.type = "ADDRESS"
             /\ stringp = linespec_expression_to_pc(Text, BasicStart).arg
        ELSE location.type = "LINESPEC"

\* C3 witness: "*1 a" gave an address location and the cursor stands after
\* "*1".
C3_Witness ==
  /\ entry = "event" /\ pass = 1
  /\ Text = Phrase(<<<<"*", "1">>, <<"a">>>>)
  /\ location.type = "ADDRESS"
  /\ stringp = 3

\* C4: in strict mode the "source filename requires function, label, or
\* line offset" error is raised exactly when the loop leaves a source
\* filename with no function, no label and an unknown line offset; no
\* explicit location returned in strict mode has a source filename alone.
C4_SourceAlone ==
  ~completion_info
     => /\ error = "source_alone" => OnlySource(xloc)
        /\ pc = "dispatch" => ~OnlySource(xloc)
        /\ location.type = "EXPLICIT" => ~OnlySource(location.explicit_loc)

\* C4 witness: "-source a" raised the error.
C4_Witness ==
  /\ ~completion_info /\ pass = 1
  /\ Text = Phrase(<<OPT_SOURCE, <<"a">>>>)
  /\ error = "source_alone"

\* C5: in strict mode an option that takes an argument and is followed by
\* the end of the input or by the `,' terminator raises "missing argument".
C5_MissingArgument ==
  [][ (/\ AtOption
       /\ ~completion_info
       /\ NextOption.error = "none"
       /\ NextOption.tok # NULL
       /\ option_branch(NextOption.tok[1]) \in ArgumentOptions
       /\ At(Text, NextArgument) \in {NUL, ","})
        => error' = "missing_argument" ]_vars

\* C6: in strict mode an option string that starts with `-', has no digit
\* as second character and is a prefix of no option raises "invalid
\* explicit location argument", and no location is returned.
C6_InvalidOption ==
  [][ (/\ AtOption
       /\ ~completion_info
       /\ NextOption.error = "none"
       /\ NextOption.tok # NULL
       /\ At(NextOption.tok[1], 1) = "-"
       /\ ~isdigit(At(NextOption.tok[1], 2))
       /\ \A name \in OptionNames : ~IsPrefix(NextOption.tok[1], name))
        => /\ error' = "invalid_option"
           /\ pc' = "done"
           /\ location' = NoLocation ]_vars

\* C6 witness: "-x a" raised the error.
C6_Witness ==
  /\ ~completion_info /\ pass = 1
  /\ Text = Phrase(<<<<"-", "x">>, <<"a">>>>)
  /\ error = "invalid_option"
  /\ location = NoLocation

\* C7: with a completion info string_to_explicit_location raises no error.
C7_CompletionNeverRaises ==
  completion_info => error \notin RaisedErrors

\* C8: an input that does not start with `-' and a letter, or that starts
\* with "-p", is not an explicit location: the explicit parser returns
\* NULL without an error and without moving its cursor, and the dispatcher
\* returns no explicit location for it (the only error such an input may
\* end in is the linespec tokenizer's, after the dispatcher went on to the
\* basic resolution).
C8_NotExplicit ==
  (\/ input = NULL
   \/ At(Text, 1) # "-"
   \/ At(Text, 2) \notin Alpha
   \/ (At(Text, 1) = "-" /\ At(Text, 2) = "p"))
     => /\ pc \notin {"loop", "validate", "dispatch"}
        /\ argp = 1
        /\ xloc = initialize_explicit_location
        /\ error # "none" => (entry = "event" /\ error = "unmatched_quote")
        /\ entry = "explicit" => location = NoLocation
        /\ location.type # "EXPLICIT"

\* C8 witness: "-p a" went to the basic resolution and gave a probe.
C8_Witness ==
  /\ entry = "event" /\ pass = 1
  /\ Text = Phrase(<<<<"-", "p">>, <<"a">>>>)
  /\ argp = 1
  /\ location.type = "PROBE"

\* The iteration the loop takes when the option string at its cursor is
\* written as OPT instead.
IterationWritten(opt) ==
  LET written == Replace(Text, argp, Len(NextOption.tok[1]), opt)
      r == loop_iteration(written, argp, xloc, language, completion_info,
                          "crash")
  IN  [branch |-> r.branch, loc |-> r.loc, outcome |-> r.outcome,
       left |-> IF r.outcome = "continue"
                THEN SubSeq(written, r.argp, Len(written))
                ELSE << >>,
       explicit |-> argp # 1 \/ is_explicit_start(Some(written))]

\* C9: option names are matched by prefix.  Whenever the loop is about to
\* lex an option written as an option's name or as an abbreviation of that
\* name only, the iteration gives the same fields, the same outcome and,
\* when the loop goes on, the same remaining input as with the option
\* written in full or in any other such abbreviation.
C9_Abbreviation ==
  (AtOption /\ NextOption.error = "none" /\ NextOption.tok # NULL)
     => \A name \in OptionNames :
          UniquePrefix(NextOption.tok[1], name)
            => LET full == IterationWritten(name)
               IN  \A n \in 2..Len(name) :
                     UniquePrefix(SubSeq(name, 1, n), name)
                       => IterationWritten(SubSeq(name, 1, n)) = full

\* C9 witness: "-func a" set the function name "a".
C9_Witness ==
  /\ pass = 1
  /\ Text = Phrase(<<<<"-", "f", "u", "n", "c">>, <<"a">>>>)
  /\ xloc.function_name = Some(<<"a">>)
  /\ error = "none"

\* The closing quote of the quoted argument of the option at the cursor:
\* the next occurrence of the opening quote character.
ClosingQuote ==
  CHOOSE c \in (NextArgument + 1)..Len(Text) :
    /\ Text[c] = Text[NextArgument]
    /\ \A i \in (NextArgument + 1)..(c - 1) : Text[i] # Text[NextArgument]

\* The option at the cursor has a quoted argument whose interior holds no
\* quote character and no backslash.
QuotedArgument ==
  /\ AtOption /\ NextOption.error = "none" /\ NextOption.tok # NULL
  /\ At(Text, NextArgument) \in QuoteChars
  /\ \E c \in (NextArgument + 1)..Len(Text) : Text[c] = Text[NextArgument]
  /\ \A i \in (NextArgument + 1)..(ClosingQuote - 1) :
        Text[i] \notin QuoteChars \cup {"\\"}

RECURSIVE QuoteOpenAt(_, _, _, _)
QuoteOpenAt(s, scan, d, quoted) ==
  IF scan >= d THEN quoted
  ELSE IF quoted # NUL
       THEN IF s[scan] = quoted THEN QuoteOpenAt(s, scan + 1, d, NUL)
            ELSE IF s[scan] = "\\" /\ At(s, scan + 1) # NUL
                 THEN QuoteOpenAt(s, scan + 2, d, quoted)
                 ELSE QuoteOpenAt(s, scan + 1, d, quoted)
       ELSE IF s[scan] \in QuoteChars
            THEN QuoteOpenAt(s, scan + 1, d, s[scan])
            ELSE QuoteOpenAt(s, scan + 1, d, NUL)

\* The character at D follows, whitespace apart, the word `operator', which
\* stands at the start FROM of the scan or after a character that is
\* neither alphanumeric nor an underscore.
FollowsOperator(s, from, d) ==
  \E q \in from..(d - CP_OPERATOR_LEN) :
     /\ SubSeq(s, q, q + CP_OPERATOR_LEN - 1) = CP_OPERATOR_STR
     /\ \A i \in (q + CP_OPERATOR_LEN)..(d - 1) : isspace(s[i])
     /\ \/ q = from
        \/ ~(isalnum(s[q - 1]) \/ s[q - 1] = "_")

\* A genuine delimiter of the function name scanned from FROM: a top-level
\* `,' or `-' that is not the first character, does not follow `operator'
\* and is not the second hyphen of `operator--'.
GenuineDelimiter(s, from, d) ==
  /\ s[d] \in {",", "-"}
  /\ QuoteOpenAt(s, from, d, NUL) = NUL
  /\ ~(d = from /\ s[d] = "-")
  /\ ~FollowsOperator(s, from, d)
  /\ ~(s[d] = "-" /\ d > from /\ s[d - 1] = "-"
       /\ FollowsOperator(s, from, d - 1))

\* Where a keyword starts after a top-level space.
KeywordStart(s, from, k) ==
  /\ k > from
  /\ s[k - 1] = " "
  /\ QuoteOpenAt(s, from, k - 1, NUL) = NUL
  /\ linespec_lexer_lex_keyword(s, k)

\* Where the unquoted function name scanned from FROM stops: the first
\* genuine delimiter or keyword, the end of the text when there is none.
FunctionNameStop(s, from) ==
  LET stops == {d \in from..Len(s) :
                  GenuineDelimiter(s, from, d) \/ KeywordStart(s, from, d)}
                \cup {Len(s) + 1}
  IN  CHOOSE d \in stops : \A e \in stops : d <= e

\* E with the spaces before it, back to FROM, taken off.
TrimmedStop(s, from, e) ==
  CHOOSE t \in from..e :
     /\ \A i \in t..(e - 1) : s[i] = " "
     /\ (t = from \/ s[t - 1] # " ")

\* The loop is about to lex the option -function with an unquoted argument.
AtUnquotedFunction ==
  /\ AtOption /\ NextOption.error = "none" /\ NextOption.tok # NULL
  /\ option_branch(NextOption.tok[1]) = "function"
  /\ At(Text, NextArgument) \notin QuoteChars \cup {NUL}

\* C11: in the function-name lexer a `,' or `-' that follows the word
\* `operator' (whitespace apart; `operator' at the start of the scan or
\* after a character that is neither alphanumeric nor underscore) does not
\* end the function name: the name runs to the next genuine delimiter after
\* it, both hyphens of `operator--' being skipped, with the spaces before
\* that delimiter trimmed.
C11_OperatorDelimiter ==
  AtUnquotedFunction
    => \A ci \in BOOLEAN :
         LET r == explicit_location_lex_one_function(Text, NextArgument,
                                                     language, ci)
             stop == TrimmedStop(Text, NextArgument,
                                 FunctionNameStop(Text, NextArgument))
         IN  /\ r.error = "none"
             /\ r.inp = stop
             /\ r.tok = IF stop > NextArgument
                        THEN Some(SubSeq(Text, NextArgument, stop - 1))
                        ELSE NULL
             /\ \A d \in NextArgument..Len(Text) :
                   (Text[d] \in {",", "-"}
                    /\ FollowsOperator(Text, NextArgument, d))
                     => r.inp # d

\* C11 witness: "-function operator- -line 1" set the function name
\* `operator-' and went on to the option -line.
C11_Witness ==
  /\ pass = 1
  /\ Text = Phrase(<<OPT_FUNCTION \o <<" ">> \o CP_OPERATOR_STR \o <<"-">>,
                    OPT_LINE \o <<" ", "1">>>>)
  /\ xloc.function_name = Some(CP_OPERATOR_STR \o <<"-">>)
  /\ xloc.line_offset = [sign |-> "NONE", offset |-> 1]
  /\ error = "none"

\* C12: the rendered string of a location is computed at most once: every
\* render after the first returns what the first render returned, also when
\* the payload was written through get_explicit_location in between and
\* also when the first render computed the empty string (no string).  Only
\* set_event_location_string replaces it.
C12_RenderOnce ==
  \A h \in Handles :
    (op.name = "to_string" /\ op.on = h /\ ~string_set[h])
      => op.result = Returned(first_render[h][1])

\* The values of the fields of EXPLICIT_LOC that are present, in the order
\* source, function, label, line, each after its flag name when FLAGGED.
\* QUALIFIED is what precedes a function name matched in full.
FieldTokens(explicit_loc, flagged, qualified) ==
  LET Flag(name) == IF flagged THEN name \o <<" ">> ELSE << >>
      sign == explicit_loc.line_offset.sign
  IN  (IF explicit_loc.source_filename # NULL
       THEN <<Flag(OPT_SOURCE) \o explicit_loc.source_filename[1]>>
       ELSE << >>)
      \o (IF explicit_loc.function_name # NULL
          THEN <<(IF explicit_loc.func_name_match_type = "FULL"
                  THEN qualified ELSE << >>)
                 \o Flag(OPT_FUNCTION) \o explicit_loc.function_name[1]>>
          ELSE << >>)
      \o (IF explicit_loc.label_name # NULL
          THEN <<Flag(OPT_LABEL) \o explicit_loc.label_name[1]>>
          ELSE << >>)
      \o (IF sign # "UNKNOWN"
          THEN <<Flag(OPT_LINE)
                 \o (CASE sign = "NONE" -> << >>
                       [] sign = "PLUS" -> <<"+">>
                       [] sign = "MINUS" -> <<"-">>)
                 \o itoa(explicit_loc.line_offset.offset)>>
          ELSE << >>)

RECURSIVE JoinedBy(_, _)
JoinedBy(tokens, separator) ==
  IF tokens = << >> THEN << >>
  ELSE IF Len(tokens) = 1 THEN tokens[1]
  ELSE tokens[1] \o separator \o JoinedBy(Tail(tokens), separator)

\* C13: an explicit location renders the fields that are present in the
\* order source, function, label, line.  In explicit mode each field
\* follows its flag name (the function's preceded by `-qualified ' when it
\* is matched in full) and the fields are joined by a space; in
\* linespec-compatible mode the bare values are joined by `:' and no option
\* flag name appears.
C13_ExplicitRendering ==
  op.name = "to_linespec"
    => LET e == Payload(heap, objects[op.on]).explicit_loc
       IN  /\ explicit_location_to_string(e)
                = JoinedBy(FieldTokens(e, TRUE, OPT_QUALIFIED \o <<" ">>),
                           <<" ">>)
           /\ op.result
                = Returned(JoinedBy(FieldTokens(e, FALSE, << >>), <<":">>))

\* The string an address location computes for the address ADDR.
CanonicalAddress(addr) == <<"*">> \o core_addr_to_string(addr)

\* op is a call that renders the location it is made on.
Renders == op.name \in {"to_string", "get_address_string_location"}

\* C14 as claimed: every render of an address location gives `*' followed
\* by the canonical text of its address value.
C14_CanonicalRendering ==
  (Renders /\ objects[op.on].type = "ADDRESS" /\ ~string_set[op.on])
    => op.result = Returned(Some(CanonicalAddress(objects[op.on].address)))

\* The first render after the construction in op: of an address location
\* built from fields, of one built from a text.
FirstRenderOfFields ==
  (op.name = "new_address_location" /\ Renders')
    => op'.result =
         Returned(Some(IF op.result.value[2] \in {NULL, Some(<< >>)}
                       THEN CanonicalAddress(op.result.value[1])
                       ELSE op.result.value[2][1]))

FirstRenderOfText ==
  (op.name = "string_to_event_location_basic" /\ Renders')
    => LET t == op.result.value[1]
       IN  op'.result =
             Returned(Some(SubSeq(t, 1,
                                  linespec_expression_to_pc(t, 1).arg - 1)))

\* C14 amended: an address location renders as the address string it was
\* constructed with when one was given and is not empty (for a location
\* built from a text: exactly the span of the text that was consumed, `*'
\* included), and as `*' followed by the canonical text of its address
\* value when none was given; every later render returns the same string,
\* until set_event_location_string replaces it.
C14_AddressRendering ==
  /\ [][FirstRenderOfFields /\ FirstRenderOfText]_vars
  /\ [](\A h \in Handles :
          (Renders /\ op.on = h /\ objects[h].type = "ADDRESS"
           /\ ~string_set[h])
            => op.result = Returned(first_render[h][1]))

\* C14 witness: the address location of the text "*26 a" rendered as `*26',
\* not as `*0x1a'.
C14_Witness ==
  /\ op.name = "to_string"
  /\ objects[op.on].type = "ADDRESS"
  /\ objects[op.on].address = 26
  /\ ~string_set[op.on]
  /\ op.result = Returned(Some(<<"*", "2", "6">>))
  /\ CanonicalAddress(26) = <<"*", "0", "x", "1", "a">>

\* C15: event_location_empty_p is false for every probe, linespec and
\* address location, whatever was done to it before (a linespec location
\* built from the empty string, which has no spec string, included); for an
\* explicit location it is true exactly when the source file name, the
\* function name and the label name are null pointers and the sign of the
\* line offset is UNKNOWN, whatever the match type.
C15_EmptyP ==
  op.name = "empty_p"
    => LET e == objects[op.on].explicit_loc
       IN  op.result =
             Returned(/\ objects[op.on].type = "EXPLICIT"
                      /\ e.source_filename = 0
                      /\ e.function_name = 0
                      /\ e.label_name = 0
                      /\ e.line_offset.sign = "UNKNOWN")

\* C15 witness: an explicit location that holds nothing but the match type
\* FULL was found empty.
C15_Witness ==
  /\ op.name = "empty_p"
  /\ objects[op.on].type = "EXPLICIT"
  /\ objects[op.on].explicit_loc.func_name_match_type = "FULL"
  /\ op.result = Returned(TRUE)

\* Every string the live object H points to is allocated.
OwnsLiveCells(h) == \A c \in OwnedCells(objects[h]) : heap[c].live

\* The two objects point to no common string.
NothingShared ==
  (Live("location") /\ Live("copy"))
    => OwnedCells(objects["location"]) \cap OwnedCells(objects["copy"]) = {}

\* copy_event_location has just returned: the copy has the tag, the payload
\* and the rendering of the original.
CopyIsEqual ==
  op.name = "copy"
    => /\ objects["copy"].type = objects["location"].type
       /\ Payload(heap, objects["copy"]) = Payload(heap, objects["location"])
       /\ to_string(Payload(heap, objects["copy"]))
            = to_string(Payload(heap, objects["location"]))

\* A call made on one object leaves the other one as it was: its strings
\* allocated, its payload and its rendering the same.
OtherUnchanged ==
  \A h \in Handles, k \in Handles :
    (h # k /\ op'.on = h /\ op'.name # "copy" /\ Live(k))
      => /\ objects'[k] = objects[k]
         /\ \A c \in OwnedCells(objects[k]) : heap'[c] = heap[c]
         /\ Payload(heap', objects'[k]) = Payload(heap, objects[k])
         /\ to_string(Payload(heap', objects'[k]))
              = to_string(Payload(heap, objects[k]))

\* C16: copy_event_location returns a new location with the same tag, an
\* equal payload and an equal rendered string, which shares no owned string
\* with the original: a write to, or the destruction of, either of the two
\* leaves the payload and the rendering of the other unchanged, and its
\* strings allocated.
C16_DeepCopy ==
  /\ [](CopyIsEqual /\ NothingShared
        /\ \A h \in Handles : Live(h) => OwnsLiveCells(h))
  /\ [][OtherUnchanged]_vars

\* C16 witness: the original was destroyed, and the copy, which holds the
\* source file, the function and the label of the original, still rendered
\* them.
C16_Witness ==
  /\ ~Live("location")
  /\ op.name = "to_string" /\ op.on = "copy"
  /\ Cardinality(OwnedCells(objects["copy"])) = 3
  /\ \E c \in 1..Len(heap) : ~heap[c].live
  /\ op.result
       = Returned(Some(OPT_SOURCE \o <<" ", "s", " ">> \o OPT_FUNCTION
                       \o <<" ", "f", " ">> \o OPT_LABEL \o <<" ", "l">>))

\* The variant each typed accessor is for.
AccessorTag ==
  [get_linespec_location |-> "LINESPEC",
   get_address_location |-> "ADDRESS",
   get_address_string_location |-> "ADDRESS",
   get_probe_location |-> "PROBE",
   get_explicit_location |-> "EXPLICIT",
   get_explicit_location_const |-> "EXPLICIT"]

\* What the accessor NAME returns of the payload V.
AccessorPayload(name, v) ==
  CASE name = "get_linespec_location" -> v.linespec_location
    [] name \in {"get_address_string_location", "get_probe_location"} ->
         to_string(v)
    [] name = "get_address_location" -> v.address
    [] name \in {"get_explicit_location", "get_explicit_location_const"} ->
         v.explicit_loc

\* C20: each typed accessor returns the payload only when the tag of the
\* location is the one it is for; on a location of any other variant the
\* assertion fails, nothing is returned, and no call is made afterwards.
C20_TypedAccessors ==
  /\ [](op.name \in DOMAIN AccessorTag
          => IF objects[op.on].type = AccessorTag[op.name]
             THEN op.result
                    = Returned(AccessorPayload(op.name,
                                               Payload(heap,
                                                       objects[op.on])))
             ELSE op.result = AssertionFailed)
  /\ [][~Aborted]_vars

\* C20 witness: get_probe_location was called on a linespec location and
\* the assertion failed.
C20_Witness ==
  /\ op.name = "get_probe_location"
  /\ objects[op.on].type = "LINESPEC"
  /\ objects[op.on].linespec_location.spec_string # 0
  /\ op.result = AssertionFailed

\* C17: when a linespec location is built from the text at the cursor and
\* gets a spec string, that string is not empty, it is the text consumed
\* (from the cursor before the call to the cursor after it) less the
\* whitespace at its end, and it neither starts nor ends with whitespace.
C17_SpecString ==
  [][(pc = "basic" /\ location'.type = "LINESPEC"
      /\ location'.linespec_location.spec_string # NULL)
       => LET str == location'.linespec_location.spec_string[1]
          IN  /\ str # << >>
              /\ str = SubSeq(Text, stringp, stringp + Len(str) - 1)
              /\ \A i \in (stringp + Len(str))..(stringp' - 1) :
                    isspace(Text[i])
              /\ ~isspace(str[1])
              /\ ~isspace(str[Len(str)])]_vars

ReturnedByExplicit ==
  \/ pc = "dispatch"
  \/ entry = "explicit" /\ pc = "returned" /\ location.type = "EXPLICIT"

\* The token the option lexer finds at the cursor does not look like an
\* option: it does not start with `-', or a digit follows the `-'.
NotOptionLike(tok) ==
  /\ tok # NULL
  /\ (At(tok[1], 1) # "-" \/ isdigit(At(tok[1], 2)))

\* C19: when string_to_explicit_location returns a location, in either
\* mode, the cursor stands at the end of the input, at a `,' between
\* tokens, at the start of a linespec keyword, or at the start of a token
\* that does not look like an option, none of which has been consumed.
C19_CursorRests ==
  ReturnedByExplicit
    => \/ At(Text, argp) = NUL
       \/ At(Text, argp) = ","
       \/ linespec_lexer_lex_keyword(Text, argp)
       \/ LET r == explicit_location_lex_one(Text, argp, language, FALSE)
          IN  /\ r.error = "none"
              /\ NotOptionLike(r.tok)
              /\ ~isspace(At(Text, argp))

\* C19 witness: on "-function a -1" the parser returned the function `a'
\* with the cursor back at the start of "-1".
C19_Witness ==
  /\ ReturnedByExplicit
  /\ pass = 1
  /\ Text = Phrase(<<OPT_FUNCTION \o <<" ", "a">>, <<"-", "1">>>>)
  /\ xloc.function_name = Some(<<"a">>)
  /\ argp = Len(Text) - 1
  /\ ~linespec_lexer_lex_keyword(Text, argp)

\* The index of the first END_QUOTE_CHAR of S, from SCAN on, that is neither
\* escaped by a backslash nor inside a region quoted with the other quote
\* character, 0 when there is none.  A backslash escapes the character
\* after it; inside a nested region only its own quote character ends it.
RECURSIVE UnescapedEndQuote(_, _, _, _)
UnescapedEndQuote(s, scan, end_quote_char, nested) ==
  IF scan > Len(s) THEN 0
  ELSE IF s[scan] = "\\" /\ scan < Len(s)
  THEN UnescapedEndQuote(s, scan + 2, end_quote_char, nested)
  ELSE IF nested # NUL
  THEN UnescapedEndQuote(s, scan + 1, end_quote_char,
                         IF s[scan] = nested THEN NUL ELSE nested)
  ELSE IF s[scan] = end_quote_char THEN scan
  ELSE UnescapedEndQuote(s, scan + 1, end_quote_char,
                         IF s[scan] \in QuoteChars THEN s[scan] ELSE NUL)

\* C21: the option-value lexer, on a text that opens with a quote, ends the
\* token at the first matching quote that is neither escaped by a backslash
\* nor inside a nested region of the other quote character, returns the
\* text between the two quotes and leaves the cursor after the closing
\* quote; when there is no such quote the closing quote is not found (an
\* error in strict mode, the rest of the text in completion mode).  The
\* cursor never passes the end of the text.
C21_QuotedToken ==
  pc = "lexed"
    => LET end == UnescapedEndQuote(Text, 2, Text[1], NUL)
       IN  /\ argp <= Len(Text) + 1
           /\ end # 0
                => /\ error = "none"
                   /\ returned_string = Some(SubSeq(Text, 2, end - 1))
                   /\ argp = end + 1
           /\ end = 0
                => IF completion_info
                   THEN /\ error = "none"
                        /\ returned_string = Some(SubSeq(Text, 2, Len(Text)))
                        /\ argp = Len(Text) + 1
                   ELSE error = "unmatched_quote"

\* C22: in every iteration of the option loop the option lexer returns a
\* token, so that strlen is called on a string and not on a null pointer.
C22_OptionToken ==
  (AtOption /\ NextOption.error = "none") => NextOption.tok # NULL

\* A word of the input that the explicit parser consumed is -qualified or
\* an abbreviation of it.
QualifiedConsumed ==
  /\ is_explicit_start(input)
  /\ \E i \in 1..(argp - 1) :
       \E j \in i..(argp - 1) :
          /\ i = 1 \/ isspace(Text[i - 1])
          /\ isspace(At(Text, j + 1)) \/ At(Text, j + 1) \in {NUL, ","}
          /\ \A k \in i..j : ~isspace(Text[k])
          /\ j > i
          /\ IsPrefix(SubSeq(Text, i, j), OPT_QUALIFIED)

====
